---- MODULE Spec2Model ----
(***************************************************************************)
(* The food-wastage dashboard (app.py): one cached sqlite connection, the   *)
(* fail-soft run_query helper, the sidebar filter option loaders, the       *)
(* WHERE-clause composition of every report and the top-to-bottom script    *)
(* run that Streamlit repeats after every user interaction.                 *)
(*                                                                          *)
(* Python strings are tuples of one-character strings, so that slicing,     *)
(* joining, searching and ordering are computed as Python computes them.    *)
(***************************************************************************)
EXTENDS Integers, Sequences, FiniteSets, TLC

VARIABLES
    db,         \* content of food_wastage.db (the script only reads it)
    conn,       \* st.cache_resource entry of get_conn: NoConn or a handle
    opens,      \* number of sqlite3.connect calls that returned a handle
    pc,         \* position of the running script
    session,    \* widget state: the value the user chose in each selectbox
    opts,       \* city_options, provider_type_options, ... (script globals)
    filt,       \* city_filter, provider_type_filter, ... (script globals)
    where,      \* script global `where`
    params,     \* script global `params`
    total,      \* script global `total` of the percentage report
    kpi,        \* kpi1 .. kpi4, until the metrics are shown
    df,         \* the data frame the last report statement returned
    call,       \* the last run_query call: statement, parameters, outcome
    log,        \* the run_query calls of this script run, in order
    shown,      \* what the last step of the script put on the page
    nfail       \* execute failures injected into this script run

vars == <<db, conn, opens, pc, session, opts, filt, where, params, total, kpi, df, call, log,
          shown, nfail>>

----------------------------------------------------------------------------
(* Bounds of the model *)

\* execute failures (read_sql_query raising) injected per script run
MaxFail == 1

----------------------------------------------------------------------------
(* Python and SQL text *)

\* the characters of the values kept in the store, in code-point order
Digits == <<"0","1","2","3","4","5","6","7","8","9">>
Upper == <<"A","B","C","D","E","F","G","H","I","J","K","L","M","N","O","P","Q","R","S","T",
           "U","V","W","X","Y","Z">>
Lower == <<"a","b","c","d","e","f","g","h","i","j","k","l","m","n","o","p","q","r","s","t",
           "u","v","w","x","y","z">>
IndexIn(s, c) == CHOOSE i \in 1..Len(s) : s[i] = c

\* ord(c)
Ord(c) ==
    IF c = " " THEN 32
    ELSE IF \E i \in 1..Len(Digits) : Digits[i] = c THEN 47 + IndexIn(Digits, c)
    ELSE IF \E i \in 1..Len(Upper) : Upper[i] = c THEN 64 + IndexIn(Upper, c)
    ELSE 96 + IndexIn(Lower, c)

Min(a, b) == IF a < b THEN a ELSE b
Max(a, b) == IF a > b THEN a ELSE b

\* str.__lt__ (and SQLite's BINARY collation): lexicographic on code points
StrLess(a, b) ==
    \E i \in 1..(Min(Len(a), Len(b)) + 1) :
        /\ \A j \in 1..(i - 1) : a[j] = b[j]
        /\ \/ i > Len(a) /\ i <= Len(b)
           \/ i <= Len(a) /\ i <= Len(b) /\ Ord(a[i]) < Ord(b[i])

\* sorted(S) for a set of strings
RECURSIVE SortedList(_)
SortedList(S) ==
    IF S = {} THEN <<>>
    ELSE LET m == CHOOSE x \in S : \A y \in S \ {x} : StrLess(x, y)
         IN  <<m>> \o SortedList(S \ {m})

\* set(xs) for a list xs
ToSet(xs) == {xs[i] : i \in 1..Len(xs)}

\* s[n:]
SliceFrom(s, n) == SubSeq(s, n + 1, Len(s))

\* s.startswith(p)
StartsWith(s, p) == Len(s) >= Len(p) /\ SubSeq(s, 1, Len(p)) = p
EndsWith(s, p) == Len(s) >= Len(p) /\ SubSeq(s, Len(s) - Len(p) + 1, Len(s)) = p

\* positions at which sub occurs in s
Occurrences(s, sub) ==
    {i \in 1..(Len(s) - Len(sub) + 1) : \A j \in 1..Len(sub) : s[i + j - 1] = sub[j]}

\* s.find(sub) + 1, 0 when absent
Find(s, sub) ==
    LET found == Occurrences(s, sub)
    IN  IF found = {} THEN 0 ELSE CHOOSE i \in found : \A j \in found : i <= j

\* s.split(sep)
RECURSIVE Split(_, _)
Split(s, sep) ==
    LET at == Find(s, sep)
    IN  IF at = 0 THEN <<s>>
        ELSE <<SubSeq(s, 1, at - 1)>> \o Split(SliceFrom(s, at + Len(sep) - 1), sep)

\* sep.join(xs)
RECURSIVE Join(_, _)
Join(sep, xs) ==
    IF xs = <<>> THEN <<>>
    ELSE IF Len(xs) = 1 THEN xs[1]
    ELSE xs[1] \o sep \o Join(sep, Tail(xs))

\* str(n) for n >= 0
RECURSIVE IntToStr(_)
IntToStr(n) ==
    IF n < 10 THEN <<Digits[n + 1]>>
    ELSE IntToStr(n \div 10) \o <<Digits[(n % 10) + 1]>>

\* None and SQL NULL: no text value equals them
None == <<"None">>
NULL == <<"NULL">>

All == <<"A","l","l">>

----------------------------------------------------------------------------
(* The relational store, as sqlite answers the script's statements *)

\* values of the text columns
Austin == <<"A","u","s","t","i","n">>
Boise == <<"B","o","i","s","e">>
Reno == <<"R","e","n","o">>
Abilene == <<"A","b","i","l","e","n","e">>
Cafe == <<"C","a","f","e">>
Bread == <<"B","r","e","a","d">>
Lunch == <<"L","u","n","c","h">>
Completed == <<"C","o","m","p","l","e","t","e","d">>
Pending == <<"P","e","n","d","i","n","g">>

\* pd.DataFrame(): zero rows, no columns
EmptyDataFrame == [columns |-> <<>>, rows |-> <<>>]

\* df.empty
IsEmpty(d) == Len(d.rows) = 0 \/ Len(d.columns) = 0

\* s.lstrip(" ")
RECURSIVE LStrip(_)
LStrip(s) == IF s # <<>> /\ Head(s) = " " THEN LStrip(Tail(s)) ELSE s

WhereKeyword == <<"W","H","E","R","E"," ">>
Newline == <<"\n">>
Semicolon == <<";">>
Quote == <<"'">>
EqualsPlaceholder == <<" ","="," ","?">>
EqualsQuote == <<" ","="," ","'">>
AndSeparator == <<" ","A","N","D"," ">>
PercentageHead == <<"1","0","0",".","0"," ","/"," ">>
PercentageAlias == <<" ","A","S"," ","p","e","r","c","e","n","t","a","g","e">>

\* the text of the WHERE clause of a statement, "" when it has none: what
\* follows the first WHERE up to the end of its line or of the statement
PredicateIn(sql) ==
    LET at == Find(sql, WhereKeyword)
    IN
    IF at = 0 THEN <<>>
    ELSE LET rest == SliceFrom(sql, at + 5)
             nl == Find(rest, Newline)
             sc == Find(rest, Semicolon)
             end == IF nl = 0 THEN sc ELSE IF sc = 0 THEN nl ELSE Min(nl, sc)
         IN  IF end = 0 THEN rest ELSE SubSeq(rest, 1, end - 1)

\* one condition of a WHERE clause: column = ? or column = 'literal'
IsPlaceholder(frag) == EndsWith(frag, EqualsPlaceholder)
IsLiteral(frag) ==
    /\ Find(frag, EqualsQuote) > 0
    /\ EndsWith(frag, Quote)
    /\ Len(frag) >= Find(frag, EqualsQuote) + 5
ColumnOf(frag) ==
    IF IsPlaceholder(frag) THEN LStrip(SubSeq(frag, 1, Len(frag) - 4))
    ELSE LStrip(SubSeq(frag, 1, Find(frag, EqualsQuote) - 1))
LiteralOf(frag) == SubSeq(frag, Find(frag, EqualsQuote) + 4, Len(frag) - 1)

\* number of ? among the first n conditions
RECURSIVE Placeholders(_, _)
Placeholders(frags, n) ==
    IF n = 0 THEN 0
    ELSE Placeholders(frags, n - 1) + (IF IsPlaceholder(frags[n]) THEN 1 ELSE 0)

\* sqlite's binding of the positional parameters ps to the ? of a WHERE
\* clause over the columns cols: an error when the clause does not parse, names
\* an unknown column or the number of bindings is wrong
Bind(pred, ps, cols) ==
    LET frags == IF pred = <<>> THEN <<>> ELSE Split(pred, AndSeparator)
        wellFormed ==
            \A i \in 1..Len(frags) :
                /\ IsPlaceholder(frags[i]) \/ IsLiteral(frags[i])
                /\ ColumnOf(frags[i]) \in cols
    IN  IF ~wellFormed \/ Placeholders(frags, Len(frags)) # Len(ps)
        THEN [ok |-> FALSE, conds |-> <<>>]
        ELSE [ok |-> TRUE,
              conds |-> [i \in 1..Len(frags) |->
                  [col |-> ColumnOf(frags[i]),
                   val |-> IF IsPlaceholder(frags[i])
                           THEN ps[Placeholders(frags, i)]
                           ELSE LiteralOf(frags[i])]]]

\* a row satisfies column = value only when the column is not NULL
Satisfies(row, conds) ==
    \A i \in 1..Len(conds) : row[conds[i].col] # NULL /\ row[conds[i].col] = conds[i].val

\* the rows of each FROM clause, as functions from column name to value
ProviderRows ==
    [i \in 1..Len(db.providers) |->
        (<<"C","i","t","y">> :> db.providers[i].City) @@ (<<"T","y","p","e">> :> db.providers[i].Type)
        @@ (<<"N","a","m","e">> :> db.providers[i].Name)]
ListingRows ==
    [i \in 1..Len(db.food_listings) |->
        (<<"L","o","c","a","t","i","o","n">> :> db.food_listings[i].Location)
        @@ (<<"F","o","o","d","_","T","y","p","e">> :> db.food_listings[i].Food_Type)
        @@ (<<"M","e","a","l","_","T","y","p","e">> :> db.food_listings[i].Meal_Type)]
ClaimRows ==
    [i \in 1..Len(db.claims) |-> (<<"S","t","a","t","u","s">> :> db.claims[i].Status)]
\* food_listings f JOIN claims c ON f.Food_ID = c.Food_ID
ListingClaimRows ==
    LET joined == SelectSeq([i \in 1..Len(db.claims) |-> db.claims[i]],
                            LAMBDA c : c.Food_ID \in 1..Len(db.food_listings))
    IN  [i \in 1..Len(joined) |->
            (<<"c",".","S","t","a","t","u","s">> :> joined[i].Status)
            @@ (<<"f",".","L","o","c","a","t","i","o","n">> :> db.food_listings[joined[i].Food_ID].Location)
            @@ (<<"f",".","M","e","a","l","_","T","y","p","e">> :> db.food_listings[joined[i].Food_ID].Meal_Type)
            @@ (<<"f",".","F","o","o","d","_","N","a","m","e">> :> db.food_listings[joined[i].Food_ID].Food_Name)]
\* receivers r JOIN claims c ON r.Receiver_ID = c.Receiver_ID
ReceiverClaimRows ==
    LET joined == SelectSeq([i \in 1..Len(db.claims) |-> db.claims[i]],
                            LAMBDA c : c.Receiver_ID \in 1..Len(db.receivers))
    IN  [i \in 1..Len(joined) |-> (<<"r",".","N","a","m","e">> :> db.receivers[joined[i].Receiver_ID].Name)]
\* providers p JOIN food_listings f ON p.Provider_ID = f.Provider_ID
ProviderListingRows ==
    LET joined == SelectSeq([i \in 1..Len(db.food_listings) |-> db.food_listings[i]],
                            LAMBDA f : f.Provider_ID \in 1..Len(db.providers))
    IN  [i \in 1..Len(joined) |->
            (<<"p",".","N","a","m","e">> :> db.providers[joined[i].Provider_ID].Name)
            @@ (<<"f",".","Q","u","a","n","t","i","t","y">> :> joined[i].Quantity)]

\* NULL sorts before every text value
KeyLess(a, b) == (a = NULL /\ b # NULL) \/ (a # NULL /\ b # NULL /\ StrLess(a, b))

\* COUNT(*) ... GROUP BY col: one row <<key, count>> per distinct key, in key order
RECURSIVE GroupRows(_, _, _)
GroupRows(rows, col, keys) ==
    IF keys = {} THEN <<>>
    ELSE LET k == CHOOSE x \in keys : \A y \in keys \ {x} : KeyLess(x, y)
         IN  <<<<k, Cardinality({i \in 1..Len(rows) : rows[i][col] = k})>>>>
                 \o GroupRows(rows, col, keys \ {k})
GroupCount(rows, col) == GroupRows(rows, col, {rows[i][col] : i \in 1..Len(rows)})

\* ORDER BY count DESC (rows of equal count stay in key order) LIMIT n
RECURSIVE OrderByCountDesc(_)
OrderByCountDesc(rs) ==
    IF rs = <<>> THEN <<>>
    ELSE LET i == CHOOSE x \in 1..Len(rs) :
                      /\ \A y \in 1..Len(rs) : rs[y][2] <= rs[x][2]
                      /\ \A y \in 1..(x - 1) : rs[y][2] < rs[x][2]
         IN  <<rs[i]>> \o OrderByCountDesc(SubSeq(rs, 1, i - 1) \o SubSeq(rs, i + 1, Len(rs)))
Limit(rs, n) == SubSeq(rs, 1, Min(n, Len(rs)))

----------------------------------------------------------------------------
(* The script's composition of WHERE clauses, parameters and statements *)

WhereText == <<" ","W","H","E","R","E"," ">>
AndText == <<" ","A","N","D"," ">>

\* add_where that writes the keyword even when no clause survives
add_where_always(clauses) ==
    WhereText \o Join(AndText, SelectSeq(clauses, LAMBDA c : c # None /\ c # <<>>))

\* add_where(clauses): the truthy clauses joined by AND behind " WHERE "
add_where(clauses) ==
    LET kept == SelectSeq(clauses, LAMBDA c : c # None /\ c # <<>>)
    IN  IF kept # <<>> THEN WhereText \o Join(AndText, kept) ELSE <<>>

\* tuple([p for p, cond in pairs if cond])
ParamsIf(pairs) ==
    LET kept == SelectSeq(pairs, LAMBDA x : x[2])
    IN  [i \in 1..Len(kept) |-> kept[i][1]]

\* the fixed text of the statements, before and after the composed fragment
Query1Head == <<"\n","S","E","L","E","C","T"," ","C","i","t","y",","," ","C","O","U","N","T","(",
                "*",")"," ","A","S"," ","p","r","o","v","i","d","e","r","_","c","o","u","n","t",
                "\n","F","R","O","M"," ","p","r","o","v","i","d","e","r","s","\n">>
Query1Tail == <<"\n","G","R","O","U","P"," ","B","Y"," ","C","i","t","y","\n","O","R","D","E","R",
                " ","B","Y"," ","p","r","o","v","i","d","e","r","_","c","o","u","n","t"," ","D",
                "E","S","C","\n","L","I","M","I","T"," ","1","0",";","\n">>
Query2Head == <<"\n","S","E","L","E","C","T"," ","T","y","p","e",","," ","C","O","U","N","T","(",
                "*",")"," ","A","S"," ","c","o","u","n","t","\n","F","R","O","M"," ","p","r","o",
                "v","i","d","e","r","s","\n">>
Query2Tail == <<"\n","G","R","O","U","P"," ","B","Y"," ","T","y","p","e","\n","O","R","D","E","R",
                " ","B","Y"," ","c","o","u","n","t"," ","D","E","S","C",";","\n">>
Query7Head == <<"\n","S","E","L","E","C","T"," ","F","o","o","d","_","T","y","p","e",","," ","C",
                "O","U","N","T","(","*",")"," ","A","S"," ","t","y","p","e","_","c","o","u","n",
                "t","\n","F","R","O","M"," ","f","o","o","d","_","l","i","s","t","i","n","g","s",
                "\n">>
Query7Tail == <<"\n","G","R","O","U","P"," ","B","Y"," ","F","o","o","d","_","T","y","p","e","\n",
                "O","R","D","E","R"," ","B","Y"," ","t","y","p","e","_","c","o","u","n","t"," ",
                "D","E","S","C",";","\n">>
Query10TotalHead == <<"S","E","L","E","C","T"," ","C","O","U","N","T","(","*",")"," ","A","S"," ","t",
                      "o","t","a","l"," ","F","R","O","M"," ","c","l","a","i","m","s">>
Query10Head == <<"\n","S","E","L","E","C","T"," ","S","t","a","t","u","s",",","\n"," "," "," "," ",
                 " "," "," ","C","O","U","N","T","(","*",")"," ","*"," ","1","0","0",".","0"," ",
                 "/"," ">>
Query10Middle == <<" ","A","S"," ","p","e","r","c","e","n","t","a","g","e","\n","F","R","O","M"," ",
                   "c","l","a","i","m","s","\n">>
Query10Tail == <<"\n","G","R","O","U","P"," ","B","Y"," ","S","t","a","t","u","s",";","\n">>
Query12Head ==
    <<"\n","S","E","L","E","C","T"," ","f",".","M","e","a","l","_","T","y","p","e",",",
      " ","C","O","U","N","T","(","c",".","C","l","a","i","m","_","I","D",")"," ","A",
      "S"," ","c","l","a","i","m","s","_","c","o","u","n","t","\n","F","R","O","M"," ",
      "f","o","o","d","_","l","i","s","t","i","n","g","s"," ","f","\n","J","O","I","N",
      " ","c","l","a","i","m","s"," ","c"," ","O","N"," ","f",".","F","o","o","d","_",
      "I","D"," ","="," ","c",".","F","o","o","d","_","I","D","\n">>
Query12Tail == <<"\n","G","R","O","U","P"," ","B","Y"," ","f",".","M","e","a","l","_","T","y","p",
                 "e","\n","O","R","D","E","R"," ","B","Y"," ","c","l","a","i","m","s","_","c","o",
                 "u","n","t"," ","D","E","S","C",";","\n">>
Query14Head ==
    <<"\n","S","E","L","E","C","T"," ","f",".","L","o","c","a","t","i","o","n",","," ",
      "C","O","U","N","T","(","c",".","C","l","a","i","m","_","I","D",")"," ","A","S",
      " ","c","o","m","p","l","e","t","e","d","_","c","l","a","i","m","s","\n","F","R",
      "O","M"," ","f","o","o","d","_","l","i","s","t","i","n","g","s"," ","f","\n","J",
      "O","I","N"," ","c","l","a","i","m","s"," ","c"," ","O","N"," ","f",".","F","o",
      "o","d","_","I","D"," ","="," ","c",".","F","o","o","d","_","I","D","\n","W","H",
      "E","R","E"," ","c",".","S","t","a","t","u","s"," ","="," ","'","C","o","m","p",
      "l","e","t","e","d","'">>
Query14End == <<"\n","G","R","O","U","P"," ","B","Y"," ","f",".","L","o","c","a","t","i","o","n",
                "\n","O","R","D","E","R"," ","B","Y"," ","c","o","m","p","l","e","t","e","d","_",
                "c","l","a","i","m","s"," ","D","E","S","C","\n","L","I","M","I","T"," ","5",";",
                "\n">>

\* the clauses handed to add_where
CityClause == <<"C","i","t","y"," ","="," ","?">>
TypeClause == <<"T","y","p","e"," ","="," ","?">>
LocationClause == <<"L","o","c","a","t","i","o","n"," ","="," ","?">>
MealTypeClause == <<"M","e","a","l","_","T","y","p","e"," ","="," ","?">>
FoodTypeClause == <<"F","o","o","d","_","T","y","p","e"," ","="," ","?">>
StatusClause == <<"S","t","a","t","u","s"," ","="," ","?">>
JoinMealTypeClause == <<"f",".","M","e","a","l","_","T","y","p","e"," ","="," ","?">>
JoinLocationClause == <<"f",".","L","o","c","a","t","i","o","n"," ","="," ","?">>

\* Query 1: providers per city
Where1(f) ==
    add_where(<<IF f.city = All THEN None ELSE CityClause,
                IF f.provider_type = All THEN None ELSE TypeClause>>)
Params1(f) ==
    ParamsIf(<< <<f.city, f.city # All>>, <<f.provider_type, f.provider_type # All>> >>)
query1(w) == Query1Head \o w \o Query1Tail

\* Query 2: provider type contributions
Where2(f) == add_where(<<IF f.city = All THEN None ELSE CityClause>>)
Params2(f) == ParamsIf(<< <<f.city, f.city # All>> >>)
query2(w) == Query2Head \o w \o Query2Tail

\* Query 7: most common food types
\* a query 7 that also filters on the food type
Where7_food_type(f) ==
    add_where(<<IF f.city = All THEN None ELSE LocationClause,
                IF f.meal_type = All THEN None ELSE MealTypeClause,
                IF f.food_type = All THEN None ELSE FoodTypeClause>>)
Where7(f) ==
    add_where(<<IF f.city = All THEN None ELSE LocationClause,
                IF f.meal_type = All THEN None ELSE MealTypeClause>>)
\* the parameters of query 7 listed in the other order
Params7_swapped(f) ==
    ParamsIf(<< <<f.meal_type, f.meal_type # All>>, <<f.city, f.city # All>> >>)
Params7(f) ==
    ParamsIf(<< <<f.city, f.city # All>>, <<f.meal_type, f.meal_type # All>> >>)
query7(w) == Query7Head \o w \o Query7Tail

\* Query 10: percentage of claims by status
Where10(f) == add_where(<<IF f.status = All THEN None ELSE StatusClause>>)
Params10(f) == ParamsIf(<< <<f.status, f.status # All>> >>)
query10_total(w) == Query10TotalHead \o w \o Semicolon
\* max(total, 1), the divisor written into the statement
Denominator(t) == Max(t, 1)
query10(w, t) ==
    Query10Head \o IntToStr(Denominator(t)) \o Query10Middle \o w \o Query10Tail

\* Query 12: most claimed meal type
Where12(f) == add_where(<<IF f.meal_type = All THEN None ELSE JoinMealTypeClause>>)
Params12(f) == ParamsIf(<< <<f.meal_type, f.meal_type # All>> >>)
query12(w) == Query12Head \o w \o Query12Tail

\* Query 14: top locations by completed claims
Where14(f) == add_where(<<IF f.city = All THEN None ELSE JoinLocationClause>>)
Params14(f) == ParamsIf(<< <<f.city, f.city # All>> >>)
\* the tail of query 14 with the slice one character short
Query14Tail_slice6(w) == IF w # <<>> THEN AndText \o SliceFrom(w, 6) ELSE <<>>
\* {" AND " + where[7:] if where else ""}
Query14Tail(w) == IF w # <<>> THEN AndText \o SliceFrom(w, 7) ELSE <<>>
query14(w) == Query14Head \o Query14Tail(w) \o Query14End

\* the statements without filters
query4 ==
    <<"\n","S","E","L","E","C","T"," ","r",".","N","a","m","e",","," ","C","O","U","N",
      "T","(","c",".","C","l","a","i","m","_","I","D",")"," ","A","S"," ","c","l","a",
      "i","m","s","_","c","o","u","n","t","\n","F","R","O","M"," ","r","e","c","e","i",
      "v","e","r","s"," ","r","\n","J","O","I","N"," ","c","l","a","i","m","s"," ","c",
      " ","O","N"," ","r",".","R","e","c","e","i","v","e","r","_","I","D"," ","="," ",
      "c",".","R","e","c","e","i","v","e","r","_","I","D","\n","G","R","O","U","P"," ",
      "B","Y"," ","r",".","N","a","m","e","\n","O","R","D","E","R"," ","B","Y"," ","c",
      "l","a","i","m","s","_","c","o","u","n","t"," ","D","E","S","C","\n","L","I","M",
      "I","T"," ","1","0",";","\n">>
query8 ==
    <<"\n","S","E","L","E","C","T"," ","f",".","F","o","o","d","_","N","a","m","e",",",
      " ","C","O","U","N","T","(","c",".","C","l","a","i","m","_","I","D",")"," ","A",
      "S"," ","c","l","a","i","m","s","_","c","o","u","n","t","\n","F","R","O","M"," ",
      "f","o","o","d","_","l","i","s","t","i","n","g","s"," ","f","\n","J","O","I","N",
      " ","c","l","a","i","m","s"," ","c"," ","O","N"," ","f",".","F","o","o","d","_",
      "I","D"," ","="," ","c",".","F","o","o","d","_","I","D","\n","G","R","O","U","P",
      " ","B","Y"," ","f",".","F","o","o","d","_","N","a","m","e","\n","O","R","D","E",
      "R"," ","B","Y"," ","c","l","a","i","m","s","_","c","o","u","n","t"," ","D","E",
      "S","C","\n","L","I","M","I","T"," ","1","5",";","\n">>
query13 ==
    <<"\n","S","E","L","E","C","T"," ","p",".","N","a","m","e",","," ","S","U","M","(",
      "f",".","Q","u","a","n","t","i","t","y",")"," ","A","S"," ","t","o","t","a","l",
      "_","d","o","n","a","t","e","d","\n","F","R","O","M"," ","p","r","o","v","i","d",
      "e","r","s"," ","p","\n","J","O","I","N"," ","f","o","o","d","_","l","i","s","t",
      "i","n","g","s"," ","f"," ","O","N"," ","p",".","P","r","o","v","i","d","e","r",
      "_","I","D"," ","="," ","f",".","P","r","o","v","i","d","e","r","_","I","D","\n",
      "G","R","O","U","P"," ","B","Y"," ","p",".","N","a","m","e","\n","O","R","D","E",
      "R"," ","B","Y"," ","t","o","t","a","l","_","d","o","n","a","t","e","d"," ","D",
      "E","S","C","\n","L","I","M","I","T"," ","1","5",";","\n">>
KpiHead == <<"S","E","L","E","C","T"," ","C","O","U","N","T","(","*",")"," ","A","S"," ","c",
             " ","F","R","O","M"," ">>
KpiSql(table) == KpiHead \o table
DistinctSelect == <<"S","E","L","E","C","T"," ","D","I","S","T","I","N","C","T"," ">>
DistinctFrom == <<" ","A","S"," ","v"," ","F","R","O","M"," ">>
DistinctWhere == <<" ","W","H","E","R","E"," ">>
DistinctOrder == <<" ","I","S"," ","N","O","T"," ","N","U","L","L"," ","O","R","D","E","R"," ","B",
                   "Y"," ","1",";">>
DistinctSql(table, column) ==
    DistinctSelect \o column \o DistinctFrom \o table \o DistinctWhere \o column
    \o DistinctOrder

----------------------------------------------------------------------------
(* What sqlite returns for each statement: [ok, df] *)

SqlError == [ok |-> FALSE, df |-> EmptyDataFrame]

\* the rows that satisfy the statement's WHERE clause under the bound parameters
Matching(rows, conds) == SelectSeq(rows, LAMBDA r : Satisfies(r, conds))

\* SELECT key, COUNT(..) FROM rows WHERE .. GROUP BY key ORDER BY count DESC [LIMIT n]
CountReport(sql, ps, rows, cols, key, columns, limit) ==
    LET b == Bind(PredicateIn(sql), ps, cols)
        grouped == OrderByCountDesc(GroupCount(Matching(rows, b.conds), key))
    IN  IF ~b.ok THEN SqlError
        ELSE [ok |-> TRUE,
              df |-> [columns |-> columns,
                      rows |-> IF limit = 0 THEN grouped ELSE Limit(grouped, limit)]]

Answer1(sql, ps) ==
    CountReport(sql, ps, ProviderRows, {<<"C","i","t","y">>, <<"T","y","p","e">>, <<"N","a","m","e">>}, <<"C","i","t","y">>,
                <<"City", "provider_count">>, 10)
Answer2(sql, ps) ==
    CountReport(sql, ps, ProviderRows, {<<"C","i","t","y">>, <<"T","y","p","e">>, <<"N","a","m","e">>}, <<"T","y","p","e">>,
                <<"Type", "count">>, 0)
Answer7(sql, ps) ==
    CountReport(sql, ps, ListingRows, {<<"L","o","c","a","t","i","o","n">>, <<"F","o","o","d","_","T","y","p","e">>, <<"M","e","a","l","_","T","y","p","e">>},
                <<"F","o","o","d","_","T","y","p","e">>, <<"Food_Type", "type_count">>, 0)
JoinColumns == {<<"c",".","S","t","a","t","u","s">>, <<"f",".","L","o","c","a","t","i","o","n">>, <<"f",".","M","e","a","l","_","T","y","p","e">>, <<"f",".","F","o","o","d","_","N","a","m","e">>}
Answer12(sql, ps) ==
    CountReport(sql, ps, ListingClaimRows, JoinColumns, <<"f",".","M","e","a","l","_","T","y","p","e">>,
                <<"Meal_Type", "claims_count">>, 0)
Answer14(sql, ps) ==
    CountReport(sql, ps, ListingClaimRows, JoinColumns, <<"f",".","L","o","c","a","t","i","o","n">>,
                <<"Location", "completed_claims">>, 5)
Answer4(sql, ps) ==
    CountReport(sql, ps, ReceiverClaimRows, {<<"r",".","N","a","m","e">>}, <<"r",".","N","a","m","e">>,
                <<"Name", "claims_count">>, 10)
Answer8(sql, ps) ==
    CountReport(sql, ps, ListingClaimRows, JoinColumns, <<"f",".","F","o","o","d","_","N","a","m","e">>,
                <<"Food_Name", "claims_count">>, 15)

\* SELECT p.Name, SUM(f.Quantity) ... GROUP BY p.Name ORDER BY total_donated DESC LIMIT 15
RECURSIVE SumQuantity(_, _)
SumQuantity(rows, name) ==
    IF rows = <<>> THEN 0
    ELSE (IF Head(rows)[<<"p",".","N","a","m","e">>] = name THEN Head(rows)[<<"f",".","Q","u","a","n","t","i","t","y">>] ELSE 0)
         + SumQuantity(Tail(rows), name)
Answer13(sql, ps) ==
    LET rows == ProviderListingRows
        counted == GroupCount(rows, <<"p",".","N","a","m","e">>)
        summed == [i \in 1..Len(counted) |-> <<counted[i][1], SumQuantity(rows, counted[i][1])>>]
    IN  IF ps # <<>> THEN SqlError
        ELSE [ok |-> TRUE,
              df |-> [columns |-> <<"Name", "total_donated">>,
                      rows |-> Limit(OrderByCountDesc(summed), 15)]]

\* SELECT COUNT(*) AS c FROM table
AnswerKpi(n, ps) ==
    IF ps # <<>> THEN SqlError
    ELSE [ok |-> TRUE, df |-> [columns |-> <<"c">>, rows |-> << <<n>> >>]]

\* SELECT COUNT(*) AS total FROM claims [WHERE Status = ?]
AnswerTotal(sql, ps) ==
    LET b == Bind(PredicateIn(sql), ps, {<<"S","t","a","t","u","s">>})
    IN  IF ~b.ok THEN SqlError
        ELSE [ok |-> TRUE,
              df |-> [columns |-> <<"total">>,
                      rows |-> << <<Len(Matching(ClaimRows, b.conds))>> >>]]

\* int(s) for a string of digits
RECURSIVE StrToInt(_)
StrToInt(s) ==
    IF s = <<>> THEN 0
    ELSE 10 * StrToInt(SubSeq(s, 1, Len(s) - 1)) + (IndexIn(Digits, s[Len(s)]) - 1)

\* the divisor written in "COUNT(*) * 100.0 / <divisor> AS percentage"
DivisorIn(sql) ==
    LET rest == SliceFrom(sql, Find(sql, PercentageHead) + 7)
    IN  StrToInt(SubSeq(rest, 1, Find(rest, PercentageAlias) - 1))

\* SELECT Status, COUNT(*) * 100.0 / d AS percentage FROM claims [WHERE ..] GROUP BY Status
\* a percentage is kept as the fraction num / den; sqlite yields NULL for x / 0
Answer10(sql, ps) ==
    LET b == Bind(PredicateIn(sql), ps, {<<"S","t","a","t","u","s">>})
        d == DivisorIn(sql)
        counted == GroupCount(Matching(ClaimRows, b.conds), <<"S","t","a","t","u","s">>)
    IN  IF ~b.ok THEN SqlError
        ELSE [ok |-> TRUE,
              df |-> [columns |-> <<"Status", "percentage">>,
                      rows |-> [i \in 1..Len(counted) |->
                          <<counted[i][1],
                            IF d = 0 THEN NULL
                            ELSE [num |-> counted[i][2] * 100, den |-> d]>>]]]

\* SELECT DISTINCT column AS v FROM table WHERE column IS NOT NULL ORDER BY 1
AnswerDistinct(values) ==
    LET sorted == SortedList(ToSet(values) \ {NULL})
    IN  [ok |-> TRUE,
         df |-> [columns |-> <<"v">>, rows |-> [i \in 1..Len(sorted) |-> <<sorted[i]>>]]]

----------------------------------------------------------------------------
(* The data source gateway *)

\* the cache of get_conn holds no handle yet
NoConn == 0

\* get_conn without its cache: every call connects again
get_conn_uncached(connects) ==
    IF connects THEN [raised |-> FALSE, conn |-> opens + 1, opens |-> opens + 1]
    ELSE [raised |-> TRUE, conn |-> conn, opens |-> opens]

\* @st.cache_resource get_conn(): the cached handle when there is one, otherwise
\* sqlite3.connect, whose handle is cached when it returns one and whose
\* exception propagates (and caches nothing) when it raises
get_conn(connects) ==
    IF conn # NoConn THEN [raised |-> FALSE, conn |-> conn, opens |-> opens]
    ELSE IF connects THEN [raised |-> FALSE, conn |-> opens + 1, opens |-> opens + 1]
    ELSE [raised |-> TRUE, conn |-> NoConn, opens |-> opens]

\* run_query(sql, params): get_conn() is called before the try block; inside it
\* read_sql_query either returns the statement's answer or raises, and the
\* except branch warns and returns pd.DataFrame()
run_query(sql, ps, answer, connects, executes) ==
    LET c == get_conn(connects)
    IN  IF c.raised
        THEN [outcome |-> "raised", df |-> EmptyDataFrame, conn |-> c.conn, opens |-> c.opens]
        ELSE IF executes /\ answer.ok
        THEN [outcome |-> "ok", df |-> answer.df, conn |-> c.conn, opens |-> c.opens]
        ELSE [outcome |-> "failed", df |-> EmptyDataFrame, conn |-> c.conn, opens |-> c.opens]

\* what the environment may do to one call: sqlite3.connect can fail whenever
\* it is attempted, read_sql_query can fail MaxFail times per script run
Connects == IF conn # NoConn THEN {TRUE} ELSE BOOLEAN
Executes(connects) == IF connects /\ nfail < MaxFail THEN BOOLEAN ELSE {TRUE}

\* st.warning(f"Query failed: {e}")
Warning(r) == IF r.outcome = "failed" THEN <<[kind |-> "warning"]>> ELSE <<>>

\* the bookkeeping of one run_query call
Called(name, sql, ps, r, executes) ==
    /\ conn' = r.conn
    /\ opens' = r.opens
    /\ call' = [name |-> name, sql |-> sql, params |-> ps, outcome |-> r.outcome]
    /\ log' = Append(log, [name |-> name, handle |-> r.conn])
    /\ nfail' = IF executes THEN nfail ELSE nfail + 1

----------------------------------------------------------------------------
(* The sidebar *)

Filters == {"city", "provider_type", "food_type", "meal_type", "status"}

\* get_distinct_values(table, column): "All" alone when run_query raised or
\* returned a frame without the column v, otherwise "All" before the values
get_distinct_values(r) ==
    IF r.outcome = "raised" \/ "v" \notin ToSet(r.df.columns) THEN <<All>>
    ELSE LET vs == SelectSeq([i \in 1..Len(r.df.rows) |-> r.df.rows[i][1]],
                             LAMBDA v : v # NULL)
         IN  <<All>> \o vs

\* the two lists concatenated, neither deduplicated nor sorted
city_options_concat(a, b) == a \o b

\* sorted(list(set([*a, *b])))
city_options(a, b) == SortedList(ToSet(a \o b))

\* the six loader calls, in script order
Loaders ==
    <<[pc |-> "opt_city", table |-> <<"p","r","o","v","i","d","e","r","s">>, column |-> <<"C","i","t","y">>],
      [pc |-> "opt_location", table |-> <<"f","o","o","d","_","l","i","s","t","i","n","g","s">>, column |-> <<"L","o","c","a","t","i","o","n">>],
      [pc |-> "opt_provider_type", table |-> <<"p","r","o","v","i","d","e","r","s">>, column |-> <<"T","y","p","e">>],
      [pc |-> "opt_food_type", table |-> <<"f","o","o","d","_","l","i","s","t","i","n","g","s">>, column |-> <<"F","o","o","d","_","T","y","p","e">>],
      [pc |-> "opt_meal_type", table |-> <<"f","o","o","d","_","l","i","s","t","i","n","g","s">>, column |-> <<"M","e","a","l","_","T","y","p","e">>],
      [pc |-> "opt_status", table |-> <<"c","l","a","i","m","s">>, column |-> <<"S","t","a","t","u","s">>]>>

\* the values of the column the k-th loader reads, row by row
ColumnValues(k) ==
    CASE k = 1 -> [i \in 1..Len(db.providers) |-> db.providers[i].City]
      [] k = 2 -> [i \in 1..Len(db.food_listings) |-> db.food_listings[i].Location]
      [] k = 3 -> [i \in 1..Len(db.providers) |-> db.providers[i].Type]
      [] k = 4 -> [i \in 1..Len(db.food_listings) |-> db.food_listings[i].Food_Type]
      [] k = 5 -> [i \in 1..Len(db.food_listings) |-> db.food_listings[i].Meal_Type]
      [] k = 6 -> [i \in 1..Len(db.claims) |-> db.claims[i].Status]

\* the script globals a loader call assigns; provider_city is the first operand
\* of the list display of line 36, gone once city_options is built
Loaded(k, got) ==
    CASE k = 1 -> [opts EXCEPT !.provider_city = got]
      [] k = 2 -> [opts EXCEPT !.city = city_options(opts.provider_city, got),
                               !.provider_city = <<>>]
      [] k = 3 -> [opts EXCEPT !.provider_type = got]
      [] k = 4 -> [opts EXCEPT !.food_type = got]
      [] k = 5 -> [opts EXCEPT !.meal_type = got]
      [] k = 6 -> [opts EXCEPT !.status = got]

\* one get_distinct_values call of lines 35-41
LoadOptions(k) ==
    /\ pc = Loaders[k].pc
    /\ \E connects \in Connects : \E executes \in Executes(connects) :
          LET sql == DistinctSql(Loaders[k].table, Loaders[k].column)
              r == run_query(sql, <<>>, AnswerDistinct(ColumnValues(k)), connects, executes)
          IN  /\ Called(Loaders[k].pc, sql, <<>>, r, executes)
              /\ opts' = Loaded(k, get_distinct_values(r))
              /\ shown' = Warning(r)
    /\ pc' = IF k < Len(Loaders) THEN Loaders[k + 1].pc ELSE "sidebar"
    /\ UNCHANGED <<db, session, filt, where, params, total, kpi, df>>

\* st.sidebar.selectbox(label, options): the value chosen among these options,
\* the first option when nothing was chosen among them
selectbox(options, state) == IF state.options = options THEN state.value ELSE options[1]

\* the five selectboxes of lines 43-47
Sidebar ==
    /\ pc = "sidebar"
    /\ filt' = [k \in Filters |-> selectbox(opts[k], session[k])]
    /\ session' = [k \in Filters |-> [options |-> opts[k], value |-> filt'[k]]]
    /\ shown' = [k \in 1..5 |-> [kind |-> "selectbox"]]
    /\ pc' = "kpi1"
    /\ UNCHANGED <<db, conn, opens, opts, where, params, total, kpi, df, call, log, nfail>>

----------------------------------------------------------------------------
(* The KPI strip and the reports *)

\* the four KPI statements, in script order
Kpis ==
    <<[pc |-> "kpi1", label |-> "Providers", table |-> <<"p","r","o","v","i","d","e","r","s">>],
      [pc |-> "kpi2", label |-> "Receivers", table |-> <<"r","e","c","e","i","v","e","r","s">>],
      [pc |-> "kpi3", label |-> "Food Listings", table |-> <<"f","o","o","d","_","l","i","s","t","i","n","g","s">>],
      [pc |-> "kpi4", label |-> "Claims", table |-> <<"c","l","a","i","m","s">>]>>

\* the number of rows of the table the k-th KPI counts
RowCount(k) ==
    CASE k = 1 -> Len(db.providers)
      [] k = 2 -> Len(db.receivers)
      [] k = 3 -> Len(db.food_listings)
      [] k = 4 -> Len(db.claims)

\* int(kpi["c"].iloc[0]) if not kpi.empty else 0
Metric(d) == IF ~IsEmpty(d) THEN d.rows[1][1] ELSE 0

\* kpi1 .. kpi4 = run_query(...); the four metrics follow the fourth, and
\* nothing reads the four frames after them
Kpi(k) ==
    /\ pc = Kpis[k].pc
    /\ \E connects \in Connects : \E executes \in Executes(connects) :
          LET sql == KpiSql(Kpis[k].table)
              r == run_query(sql, <<>>, AnswerKpi(RowCount(k), <<>>), connects, executes)
          IN  /\ Called(Kpis[k].pc, sql, <<>>, r, executes)
              /\ IF r.outcome = "raised"
                 THEN /\ pc' = "crashed"
                      /\ kpi' = kpi
                      /\ shown' = <<[kind |-> "exception"]>>
                 ELSE /\ pc' = IF k < Len(Kpis) THEN Kpis[k + 1].pc ELSE "query1"
                      /\ kpi' = IF k < Len(Kpis) THEN Append(kpi, r.df) ELSE <<>>
                      /\ shown' = Warning(r) \o
                            (IF k < Len(Kpis) THEN <<>>
                             ELSE [i \in 1..Len(Kpis) |->
                                      [kind |-> "metric", label |-> Kpis[i].label,
                                       value |-> Metric(Append(kpi, r.df)[i])]])
    /\ UNCHANGED <<db, session, opts, filt, where, params, total, df>>

\* st.dataframe(df), and the bar chart when the report has one and df is not empty
Display(d, chart) ==
    <<[kind |-> "dataframe", df |-> d]>>
        \o (IF chart /\ ~IsEmpty(d) THEN <<[kind |-> "pyplot"]>> ELSE <<>>)

\* one report: compose where and params, run the statement, show the result
Report(this, next, w, ps, sent, sql, answer, chart) ==
    /\ pc = this
    /\ where' = w
    /\ params' = ps
    /\ \E connects \in Connects : \E executes \in Executes(connects) :
          LET r == run_query(sql, sent, answer, connects, executes)
          IN  /\ Called(this, sql, sent, r, executes)
              /\ IF r.outcome = "raised"
                 THEN /\ pc' = "crashed"
                      /\ df' = df
                      /\ shown' = <<[kind |-> "exception"]>>
                 ELSE /\ pc' = next
                      /\ df' = r.df
                      /\ shown' = Warning(r) \o Display(r.df, chart)
    /\ UNCHANGED <<db, session, opts, filt, total, kpi>>

Query1 ==
    Report("query1", "query2", Where1(filt), Params1(filt), Params1(filt),
           query1(Where1(filt)), Answer1(query1(Where1(filt)), Params1(filt)), TRUE)

Query2 ==
    Report("query2", "query7", Where2(filt), Params2(filt), Params2(filt),
           query2(Where2(filt)), Answer2(query2(Where2(filt)), Params2(filt)), TRUE)

Query7 ==
    Report("query7", "query10_total", Where7(filt), Params7(filt), Params7(filt),
           query7(Where7(filt)), Answer7(query7(Where7(filt)), Params7(filt)), TRUE)

\* total = int(total_df["total"].iloc[0]) if not total_df.empty else 0
TotalOf(d) == IF ~IsEmpty(d) THEN d.rows[1][1] ELSE 0

\* the total of the percentage report: nothing is shown but a warning
Query10Total ==
    /\ pc = "query10_total"
    /\ where' = Where10(filt)
    /\ params' = Params10(filt)
    /\ \E connects \in Connects : \E executes \in Executes(connects) :
          LET sql == query10_total(where')
              r == run_query(sql, params', AnswerTotal(sql, params'), connects, executes)
          IN  /\ Called("query10_total", sql, params', r, executes)
              /\ IF r.outcome = "raised"
                 THEN /\ pc' = "crashed"
                      /\ total' = total
                      /\ shown' = <<[kind |-> "exception"]>>
                 ELSE /\ pc' = "query10"
                      /\ total' = TotalOf(r.df)
                      /\ shown' = Warning(r)
    /\ UNCHANGED <<db, session, opts, filt, kpi, df>>

Query10 ==
    Report("query10", "query12", where, params, params,
           query10(where, total), Answer10(query10(where, total), params), TRUE)

Query12 ==
    Report("query12", "query14", Where12(filt), Params12(filt), Params12(filt),
           query12(Where12(filt)), Answer12(query12(Where12(filt)), Params12(filt)), TRUE)

Query14 ==
    Report("query14", "query4", Where14(filt), Params14(filt), Params14(filt),
           query14(Where14(filt)), Answer14(query14(Where14(filt)), Params14(filt)), TRUE)

\* the table-only reports: run_query(query) with the default params = ()
Query4 ==
    Report("query4", "query8", where, params, <<>>, query4, Answer4(query4, <<>>), FALSE)

Query8 ==
    Report("query8", "query13", where, params, <<>>, query8, Answer8(query8, <<>>), FALSE)

Query13 ==
    Report("query13", "done", where, params, <<>>, query13, Answer13(query13, <<>>), FALSE)

----------------------------------------------------------------------------
(* Script runs *)

NoOptions ==
    [provider_city |-> <<>>, city |-> <<>>, provider_type |-> <<>>, food_type |-> <<>>,
     meal_type |-> <<>>, status |-> <<>>]
NoCall == [name |-> "", sql |-> <<>>, params |-> <<>>, outcome |-> ""]

\* Streamlit runs the script from its first line with fresh globals; the
\* widget state and the st.cache_resource cache outlive the run
StartRun ==
    /\ pc' = "opt_city"
    /\ opts' = NoOptions
    /\ filt' = [k \in Filters |-> None]
    /\ where' = <<>>
    /\ params' = <<>>
    /\ total' = 0
    /\ kpi' = <<>>
    /\ df' = EmptyDataFrame
    /\ call' = NoCall
    /\ log' = <<>>
    /\ shown' = <<>>
    /\ nfail' = 0

Finished == pc \in {"done", "crashed"}

\* the user picks another value in one selectbox: the script runs again
UserSelect(k, v) ==
    /\ Finished
    /\ v \in ToSet(opts[k])
    /\ v # filt[k]
    /\ session' = [session EXCEPT ![k] = [options |-> opts[k], value |-> v]]
    /\ StartRun
    /\ UNCHANGED <<db, conn, opens>>

\* the user reruns the script without changing a filter
Rerun ==
    /\ Finished
    /\ StartRun
    /\ UNCHANGED <<db, conn, opens, session>>

----------------------------------------------------------------------------
(* The stores the script is run against *)

RECURSIVE SeqOf(_)
SeqOf(S) ==
    IF S = {} THEN <<>>
    ELSE LET x == CHOOSE y \in S : TRUE IN <<x>> \o SeqOf(S \ {x})

Provider(city) == [Name |-> <<"A","n","n">>, Type |-> Cafe, City |-> city]
Listing(location) ==
    [Food_Name |-> Bread, Food_Type |-> Bread, Meal_Type |-> Lunch, Location |-> location,
     Provider_ID |-> 1, Quantity |-> 2]
Claim(status) == [Status |-> status, Food_ID |-> 1, Receiver_ID |-> 1]

EmptyStore == [providers |-> <<>>, receivers |-> <<>>, food_listings |-> <<>>, claims |-> <<>>]

\* a populated store: a provider in Austin, a listing in Reno, three claims
PopulatedStore ==
    [providers |-> <<Provider(Austin)>>, receivers |-> <<[Name |-> <<"C","y">>]>>,
     food_listings |-> <<Listing(Reno)>>,
     claims |-> <<Claim(Completed), Claim(Pending), Claim(NULL)>>]

Stores == {EmptyStore, PopulatedStore}

\* stores with any cities and locations, NULL and the text All among them
Cities == {Abilene, Austin, Reno}
Locations == {NULL, All, Boise, Reno}
CityStores ==
    {[providers |-> [i \in 1..Len(SeqOf(P)) |-> Provider(SeqOf(P)[i])],
      receivers |-> <<>>,
      food_listings |-> [i \in 1..Len(SeqOf(L)) |-> Listing(SeqOf(L)[i])],
      claims |-> <<>>] : P \in SUBSET Cities, L \in SUBSET Locations}

InitWith(stores) ==
    /\ db \in stores
    /\ conn = NoConn
    /\ opens = 0
    /\ pc = "opt_city"
    /\ session = [k \in Filters |-> [options |-> <<>>, value |-> None]]
    /\ opts = NoOptions
    /\ filt = [k \in Filters |-> None]
    /\ where = <<>>
    /\ params = <<>>
    /\ total = 0
    /\ kpi = <<>>
    /\ df = EmptyDataFrame
    /\ call = NoCall
    /\ log = <<>>
    /\ shown = <<>>
    /\ nfail = 0

Init == InitWith(Stores)

Next ==
    \/ \E k \in 1..Len(Loaders) : LoadOptions(k)
    \/ Sidebar
    \/ \E k \in 1..Len(Kpis) : Kpi(k)
    \/ Query1
    \/ Query2
    \/ Query7
    \/ Query10Total
    \/ Query10
    \/ Query12
    \/ Query14
    \/ Query4
    \/ Query8
    \/ Query13
    \/ \E k \in Filters : \E v \in ToSet(opts[k]) : UserSelect(k, v)
    \/ Rerun

Spec == Init /\ [][Next]_vars

\* the sidebar alone, over every store of CityStores
InitCities == InitWith(CityStores)
NextSidebar ==
    \/ \E k \in 1..Len(Loaders) : LoadOptions(k)
    \/ Sidebar
SpecSidebar == InitCities /\ [][NextSidebar]_vars

----------------------------------------------------------------------------
(* Properties *)

Reports ==
    <<"query1", "query2", "query7", "query10_total", "query10", "query12", "query14",
      "query4", "query8", "query13">>
FilteredReports ==
    {"query1", "query2", "query7", "query10_total", "query10", "query12", "query14"}
AllSelected == \A k \in Filters : filt[k] = All
LoaderNames == [k \in 1..Len(Loaders) |-> Loaders[k].pc]
KpiNames == [k \in 1..Len(Kpis) |-> Kpis[k].pc]
Names(l) == [i \in 1..Len(l) |-> l[i].name]
\* the last step of the script was the run_query call kept in call
JustCalled == call.name # "" /\ pc # "kpi1"

\* C1: run_query never raises to its caller: whenever obtaining the connection
\* or executing the statement fails, it warns and returns the empty frame.
C1_RunQueryNeverRaises ==
    /\ call.outcome # "raised"
    /\ (call.outcome = "failed" /\ JustCalled) => [kind |-> "warning"] \in ToSet(shown)
    /\ (call.outcome = "failed" /\ call.name \in ToSet(Reports) \ {"query10_total"}) =>
          df = EmptyDataFrame

\* C2: in every report that composes a predicate, when every filter is "All"
\* the WHERE fragment is the empty string and the parameter tuple is empty.
C2_AllSelectedComposesNothing ==
    (call.name \in FilteredReports /\ AllSelected) =>
        (where = <<>> /\ params = <<>> /\ call.params = <<>>)
C2_Witness ==
    /\ call.name = "query7"
    /\ call.outcome = "ok"
    /\ AllSelected
    /\ where = <<>>
    /\ db = PopulatedStore

\* the conditions of a composed WHERE fragment, in the order they are written
Fragments(w) == IF w = <<>> THEN <<>> ELSE Split(SliceFrom(w, 7), <<" ","A","N","D"," ">>)
\* the filter a column is compared with
FilterOfColumn(col) ==
    CASE col \in {<<"C","i","t","y">>, <<"L","o","c","a","t","i","o","n">>, <<"f",".","L","o","c","a","t","i","o","n">>} -> "city"
      [] col = <<"T","y","p","e">> -> "provider_type"
      [] col \in {<<"M","e","a","l","_","T","y","p","e">>, <<"f",".","M","e","a","l","_","T","y","p","e">>} -> "meal_type"
      [] col = <<"S","t","a","t","u","s">> -> "status"
      [] OTHER -> "none"
\* the filters each filtered report reads
FiltersOf(name) ==
    CASE name = "query1" -> {"city", "provider_type"}
      [] name = "query2" -> {"city"}
      [] name = "query7" -> {"city", "meal_type"}
      [] name \in {"query10_total", "query10"} -> {"status"}
      [] name = "query12" -> {"meal_type"}
      [] name = "query14" -> {"city"}
      [] OTHER -> {}

\* C3: in every filtered report the parameters are exactly the selected values
\* of the report's filters that are not "All", in the order of their ? fragments
\* in the WHERE clause: as many ? as parameters, one AND-free fragment and one
\* parameter for a single active filter, and " WHERE City = ?" with ("Austin",)
\* for city Austin and provider type All.
C3_ParamsFollowFragments ==
    call.name \in FilteredReports =>
        LET frags == Fragments(where)
            active == {k \in FiltersOf(call.name) : filt[k] # All}
        IN  /\ call.params = params
            /\ Len(frags) = Len(params)
            /\ Cardinality(Occurrences(where, <<"?">>)) = Len(params)
            /\ Cardinality(active) = Len(params)
            /\ \A i \in 1..Len(frags) :
                  /\ IsPlaceholder(frags[i])
                  /\ FilterOfColumn(ColumnOf(frags[i])) \in active
                  /\ params[i] = filt[FilterOfColumn(ColumnOf(frags[i]))]
            /\ {FilterOfColumn(ColumnOf(frags[i])) : i \in 1..Len(frags)} = active
            /\ Cardinality(active) = 1 =>
                  (Occurrences(where, <<" ","A","N","D"," ">>) = {} /\ StartsWith(where, <<" ","W","H","E","R","E"," ">>))
            /\ (call.name = "query1" /\ filt.city = Austin /\ filt.provider_type = All) =>
                  (where = <<" ","W","H","E","R","E"," ","C","i","t","y"," ","="," ","?">> /\ params = <<Austin>>)
C3_Witness ==
    /\ call.name = "query7"
    /\ call.outcome = "ok"
    /\ filt.city = Reno
    /\ filt.meal_type = Lunch
    /\ params = <<Reno, Lunch>>
    /\ ~IsEmpty(df)

\* C4: each of the five option lists has "All" as its first element, the
\* city/location list included, so that every filter defaults to "All".
C4_AllIsFirstOption ==
    pc \notin ToSet(LoaderNames) =>
        \A k \in Filters : opts[k] # <<>> /\ opts[k][1] = All

\* the values of a column that are not NULL
NonNull(values) == ToSet(values) \ {NULL}
WithoutAll(xs) == SelectSeq(xs, LAMBDA x : x # All)
Ascending(xs) == \A i \in 1..Len(xs) : \A j \in (i + 1)..Len(xs) : StrLess(xs[i], xs[j])

\* C5: the city/location options without "All" are the union of the distinct
\* non-null providers.City and food_listings.Location values, each once, ascending.
C5_CityOptionsAreSortedUnion ==
    [][(pc = "opt_location" /\ call.outcome = "ok" /\ call'.outcome = "ok") =>
          /\ ToSet(WithoutAll(opts'.city))
                = (NonNull(ColumnValues(1)) \cup NonNull(ColumnValues(2))) \ {All}
          /\ Ascending(opts'.city)
          /\ Cardinality({i \in 1..Len(opts'.city) : opts'.city[i] = All}) = 1]_vars
C5_Witness ==
    /\ pc = "opt_provider_type"
    /\ call.outcome = "ok"
    /\ NonNull(ColumnValues(1)) = {Austin, Reno}
    /\ NonNull(ColumnValues(2)) = {Reno, Boise}
    /\ opts.city = <<All, Austin, Boise, Reno>>

\* the sum of the numerators of the percentages of a frame
RECURSIVE SumNum(_)
SumNum(rows) == IF rows = <<>> THEN 0 ELSE Head(rows)[2].num + SumNum(Tail(rows))

\* C6: the percentages are divided by the number of claims under the same
\* status filter, or by 1 when that number is zero or unavailable, never by
\* zero; and with no status filter and at least one claim the per-status counts
\* sum to the divisor, so that the percentages sum to 100.
C6_PercentagesSumTo100 ==
    (call.name = "query10" /\ call.outcome = "ok") =>
        /\ DivisorIn(call.sql) = Max(total, 1)
        /\ DivisorIn(call.sql) >= 1
        /\ (filt.status = All /\ Len(db.claims) >= 1) =>
              SumNum(df.rows) = 100 * DivisorIn(call.sql)

\* C7: every script run executes every statement exactly once in the same
\* order whatever failed before: nothing aborts the run, and a failed report
\* shows an empty table and no chart.
C7_EveryReportRunsOnce ==
    /\ pc # "crashed"
    /\ pc = "done" => Names(log) = LoaderNames \o KpiNames \o Reports
    /\ (call.outcome = "failed" /\ call.name \in ToSet(Reports) \ {"query10_total"}) =>
          /\ [kind |-> "dataframe", df |-> EmptyDataFrame] \in ToSet(shown)
          /\ [kind |-> "pyplot"] \notin ToSet(shown)

\* C8: at most one connection is ever opened; it is created by the first call
\* that obtains one, every later call uses that handle, and it is never closed
\* or replaced.
C8_OneConnection ==
    /\ opens <= 1
    /\ conn = IF opens = 0 THEN NoConn ELSE 1
    /\ \A i \in 1..Len(log) : log[i].handle \in {NoConn, conn}
    /\ \A i \in 1..Len(log) : \A j \in i..Len(log) :
          log[i].handle # NoConn => log[j].handle = log[i].handle
C8_Witness ==
    /\ pc = "done"
    /\ opens = 1
    /\ filt.city = Reno
    /\ \A i \in 1..Len(log) : log[i].handle = 1

\* C9: the completed-claims statement has exactly one WHERE keyword; its
\* predicate is c.Status = 'Completed' alone for city "All" and
\* c.Status = 'Completed' AND f.Location = ? with the city as only parameter
\* otherwise: the composed fragment loses exactly its leading " WHERE ".
C9_Query14Predicate ==
    call.name = "query14" =>
        /\ Cardinality(Occurrences(call.sql, <<"W","H","E","R","E">>)) = 1
        /\ filt.city = All =>
              /\ PredicateIn(call.sql) = <<"c",".","S","t","a","t","u","s"," ","="," ","'","C","o","m","p","l","e","t","e",
                                           "d","'">>
              /\ call.params = <<>>
        /\ filt.city # All =>
              /\ PredicateIn(call.sql) = <<"c",".","S","t","a","t","u","s"," ","="," ","'","C","o","m","p","l","e","t","e",
                                           "d","'"," ","A","N","D"," ","f",".","L","o","c","a","t","i","o","n"," ","="," ",
                                           "?">>
              /\ call.params = <<filt.city>>
              /\ where = <<" ","W","H","E","R","E"," ">> \o <<"f",".","L","o","c","a","t","i","o","n"," ","="," ","?">>
C9_Witness ==
    /\ call.name = "query14"
    /\ call.outcome = "ok"
    /\ filt.city = Reno
    /\ Len(df.rows) = 1
    /\ df.rows[1] = <<Reno, 1>>

\* the statement and parameters a report issues under the selections f
Issued(name, f, t) ==
    CASE name = "query1" -> <<query1(Where1(f)), Params1(f)>>
      [] name = "query2" -> <<query2(Where2(f)), Params2(f)>>
      [] name = "query7" -> <<query7(Where7(f)), Params7(f)>>
      [] name = "query10_total" -> <<query10_total(Where10(f)), Params10(f)>>
      [] name = "query10" -> <<query10(Where10(f), t), Params10(f)>>
      [] name = "query12" -> <<query12(Where12(f)), Params12(f)>>
      [] name = "query14" -> <<query14(Where14(f)), Params14(f)>>
      [] name = "query4" -> <<query4, <<>> >>
      [] name = "query8" -> <<query8, <<>> >>
      [] name = "query13" -> <<query13, <<>> >>
\* the script run that differs from this one only in the selection of filter k
Reselected(k) == {[filt EXCEPT ![k] = v] : v \in ToSet(opts[k])}

\* C10: the food type selection changes no statement and no parameter of any
\* report; the provider type changes only the top-cities report and the claim
\* status only the percentage report.
C10_FoodTypeChangesNothing ==
    call.name \in ToSet(Reports) =>
        /\ \A f \in Reselected("food_type") :
              Issued(call.name, f, total) = <<call.sql, call.params>>
        /\ call.name # "query1" =>
              \A f \in Reselected("provider_type") :
                  Issued(call.name, f, total) = <<call.sql, call.params>>
        /\ call.name \notin {"query10_total", "query10"} =>
              \A f \in Reselected("status") :
                  Issued(call.name, f, total) = <<call.sql, call.params>>
C10_Witness ==
    /\ call.name = "query7"
    /\ call.outcome = "ok"
    /\ filt.food_type = Bread
    /\ Cardinality(Reselected("food_type")) = 2
    /\ ~IsEmpty(df)

====
